---- MODULE Spec2Model ----
(***************************************************************************)
(* A model of emr_cost_calculator.py: the spot price cache and its         *)
(* time-weighted billing (SpotPricing), the per-cluster cost breakdown     *)
(* with its retry decorator, and the date-range total (EmrCostCalculator). *)
(*                                                                         *)
(* Timestamps are whole hours, so total_seconds() is hours * 3600 and the  *)
(* division by 3600.0 is exact; prices are whole dollars per hour.  Every  *)
(* amount of the model is therefore the exact value of the float the code  *)
(* computes.                                                               *)
(***************************************************************************)
EXTENDS Integers, Sequences, FiniteSets, TLC

\* ------------------------------------------------------------------ bounds
\* Items per page of every paginated service.
PageSize == 1
\* Transient failures the services inject into one get_cluster_cost call.
MaxAttempts == 2

\* ------------------------------------------------------------- constants
\* datetime.timedelta(days=1, hours=1), in hours.
MaxGap == 25
\* total_seconds() of one hour, and the divisor of the billing formula.
SecondsPerHour == 3600
\* @retry(wait_exponential_multiplier=1000, wait_exponential_max=7000)
wait_exponential_multiplier == 1000
wait_exponential_max == 7000

\* The instants (hours) at which anything happens: 0 and 25 are exactly
\* 25 hours apart, 12 and 38 are 26 hours apart.
Times == {0, 12, 25, 38}
Prices == {1, 2}
InstanceTypes == {"m1"}
Zones == {"z1"}
Keys == InstanceTypes \X Zones

\* None, for previous_ts.
NoTs == -1

\* The inventory: cluster ids, and the groups and zone of each cluster.
ClusterIds == {"j-1", "j-2"}
Roles == {"MASTER", "CORE", "TASK"}

\* A timeline field the inventory service left out, and one that is not a
\* datetime (it has no tzinfo and cannot be subtracted).
Missing == -2
Malformed == -3

VARIABLES
    market,       \* the spot market's history: key -> (timestamp -> price)
    descending,   \* whether the spot service delivers newest first
    instRecs,     \* the inventory: group id -> the instance records listed
    clusterSeq,   \* the inventory: the cluster ids the listing enumerates
    all_prices,   \* SpotPricing.all_prices: key -> (timestamp -> price)
    sp,           \* the locals of _populate_all_prices_if_needed
    requests,     \* describe_spot_price_history requests of the current call
    cl,           \* the locals of get_cluster_cost and of its retry wrapper
    tot,          \* the locals of get_total_cost_by_dates
    pc,           \* the remote call the program is blocked on, or "idle"
    op,           \* the entry point in progress
    ret           \* what the last entry point returned or raised

vars == <<market, descending, instRecs, clusterSeq, all_prices, sp, requests,
          cl, tot, pc, op, ret>>
world == <<market, descending, instRecs, clusterSeq>>
spotVars == <<all_prices, sp, requests>>

\* ----------------------------------------------------------------- helpers
Min(S) == CHOOSE x \in S : \A y \in S : x <= y
Max(S) == CHOOSE x \in S : \A y \in S : y <= x

RECURSIVE SortedSeq(_)
\* sorted(S)
SortedSeq(S) ==
    IF S = {} THEN <<>>
    ELSE LET m == Min(S) IN <<m>> \o SortedSeq(S \ {m})

Reverse(s) == [i \in 1..Len(s) |-> s[Len(s) + 1 - i]]

\* A dict: a function on the set of its keys.
EmptyDict == <<>>
Put(d, k, v) == [x \in DOMAIN d \cup {k} |-> IF x = k THEN v ELSE d[x]]

\* (t2 - t1).total_seconds()
total_seconds(hours) == hours * SecondsPerHour

\* float(seconds_passed) * price / 3600.0
SegmentPrice(seconds_passed, price) == (seconds_passed * price) \div SecondsPerHour

\* ------------------------------------------------------- the spot service
\* What describe_spot_price_history knows of a key in [start, end]: the
\* price changes inside the window and the last one before it (the price
\* in force at start).
HistoryTimes(key, start, end) ==
    LET all == DOMAIN market[key]
        before == {t \in all : t < start}
    IN {t \in all : start <= t /\ t <= end}
       \cup (IF before = {} THEN {} ELSE {Max(before)})

SpotPriceHistory(key, start, end) ==
    LET asc == SortedSeq(HistoryTimes(key, start, end))
        ts == IF descending THEN Reverse(asc) ELSE asc
    IN [i \in 1..Len(ts) |-> [Timestamp |-> ts[i], SpotPrice |-> market[key][ts[i]]]]

\* The pages of a listing: PageSize items each, at least one page.
PageCount(items) ==
    IF Len(items) = 0 THEN 1 ELSE (Len(items) + PageSize - 1) \div PageSize

Page(items, n) ==
    SubSeq(items, (n - 1) * PageSize + 1,
           IF n * PageSize < Len(items) THEN n * PageSize ELSE Len(items))

\* ------------------------------------------------------------ SpotPricing
RECURSIVE MergePage(_, _, _)
\* The for loop over one page of prices_response['SpotPriceHistory'].
MergePage(prices, previous_ts, page) ==
    IF page = <<>> THEN [prices |-> prices, previous_ts |-> previous_ts, quit |-> FALSE]
    ELSE LET price == Head(page)
             prev == IF previous_ts = NoTs THEN price.Timestamp ELSE previous_ts
         IN IF prev - price.Timestamp > MaxGap
            THEN [prices |-> prices, previous_ts |-> prev, quit |-> TRUE]
            ELSE MergePage(Put(prices, price.Timestamp, price.SpotPrice),
                           price.Timestamp, Tail(page))

\* Mutant of CacheSufficient: the age of the cache taken from its first key.
CacheSufficientFirstKey(prices, start_time, end_time) ==
    LET keys == SortedSeq(DOMAIN prices)
    IN /\ end_time - keys[1] < MaxGap
       /\ keys[1] < start_time

\* "this means we already have requested dates. Nothing to do"
CacheSufficient(prices, start_time, end_time) ==
    LET keys == SortedSeq(DOMAIN prices)
    IN /\ end_time - keys[Len(keys)] < MaxGap
       /\ keys[1] < start_time

RECURSIVE BilledLoop(_, _, _, _, _, _)
\* The for loop of get_billed_price_for_period, from index key_id (1-based).
BilledLoop(prices, keys, key_id, summed_price, summed_until_timestamp, end_time) ==
    IF key_id > Len(keys) THEN [none |-> TRUE, value |-> 0]
    ELSE IF key_id = Len(keys) \/ end_time < keys[key_id + 1]
    THEN [none |-> FALSE,
          value |-> summed_price
                    + SegmentPrice(total_seconds(end_time - summed_until_timestamp),
                                   prices[keys[key_id]])]
    ELSE IF keys[key_id] < summed_until_timestamp
            /\ summed_until_timestamp < keys[key_id + 1]
    THEN BilledLoop(prices, keys, key_id + 1,
                    summed_price
                    + SegmentPrice(total_seconds(keys[key_id + 1] - summed_until_timestamp),
                                   prices[keys[key_id]]),
                    keys[key_id + 1], end_time)
    ELSE BilledLoop(prices, keys, key_id + 1, summed_price, summed_until_timestamp, end_time)

\* Mutant of BilledPrice: the last known price extends no further than
\* MaxGap hours past its event.
BilledPriceCapped(prices, start_time, end_time) ==
    LET keys == SortedSeq(DOMAIN prices)
        limit == IF keys = <<>> THEN end_time ELSE keys[Len(keys)] + MaxGap
    IN BilledLoop(prices, keys, 1, 0, start_time,
                  IF end_time > limit /\ limit >= start_time THEN limit ELSE end_time)

\* get_billed_price_for_period once the cache is populated; none is Python's
\* None, returned when the loop ends without a return.
BilledPrice(prices, start_time, end_time) ==
    BilledLoop(prices, SortedSeq(DOMAIN prices), 1, 0, start_time, end_time)

\* ------------------------------------------------------------- exceptions
\* An exception: its class and, for a botocore ClientError, the string
\* response['Error']['Code'] as its characters.
ClientError(code) == [type |-> "ClientError", code |-> code]
Exc(type) == [type |-> type, code |-> <<>>]
NoExc == Exc("")

\* What a remote call may raise: a server-side error, a client-side error,
\* and a failure that carries no response at all.
ServiceErrors ==
    {ClientError(<<"5", "0", "3">>), ClientError(<<"4", "0", "0">>),
     Exc("EndpointConnectionError")}

\* Mutant of is_error_retriable: every ClientError is retried.
is_error_retriable_any_code(exception) == exception.type = "ClientError"

\* is_error_retriable: only a ClientError has the attribute response.
is_error_retriable(exception) ==
    IF exception.type = "ClientError"
    THEN Len(exception.code) >= 1 /\ exception.code[1] = "5"
    ELSE FALSE

RECURSIVE Pow2(_)
Pow2(n) == IF n = 0 THEN 1 ELSE 2 * Pow2(n - 1)

\* The wait the decorator sleeps after a failed attempt:
\* wait_exponential_multiplier * 2^attempt, at most wait_exponential_max.
exponential_sleep(previous_attempt_number) ==
    LET result == wait_exponential_multiplier * Pow2(previous_attempt_number)
    IN IF result > wait_exponential_max THEN wait_exponential_max ELSE result

\* -------------------------------------------------------------- inventory
\* list_instance_groups(ClusterId): j-1 has an on-demand master group and a
\* spot core group, j-2 one spot task group.
Group(id, type, market_type, role) ==
    [Id |-> id, InstanceType |-> type, Market |-> market_type, InstanceGroupType |-> role]

InstanceGroups(cluster_id) ==
    IF cluster_id = "j-1"
    THEN <<Group("g-1", "m1", "ON_DEMAND", "MASTER"), Group("g-2", "m1", "SPOT", "CORE")>>
    ELSE <<Group("g-3", "m1", "SPOT", "TASK")>>

GroupIds == {"g-1", "g-2", "g-3"}

\* describe_cluster(ClusterId)...['Ec2AvailabilityZone']
AvailabilityZone(cluster_id) == "z1"

\* Ec2EmrPricing.ec2_prices and emr_prices, dollars per hour.
ec2_prices == [t \in InstanceTypes |-> 5]
emr_prices == [t \in InstanceTypes |-> 1]

\* An instance record's Status.Timeline as list_instances returns it.
InstanceInfo(creation, end) == [CreationDateTime |-> creation, EndDateTime |-> end]

\* datetime.datetime.now(tz=...)
Now == Max(Times)

\* ------------------------------------------------------------ idle values
\* entry_prices is a history field no action reads: all_prices as it was
\* when get_billed_price_for_period was called.
SpIdle ==
    [key |-> <<"", "">>, start_time |-> 0, end_time |-> 0, prices |-> EmptyDict,
     cached |-> FALSE, previous_ts |-> NoTs, next_token |-> 0,
     entry_prices |-> EmptyDict]

ClIdle ==
    [cluster_id |-> "", attempt_number |-> 0, instance_groups |-> <<>>,
     availability_zone |-> "", group |-> 0, marker |-> 0, instance_list |-> <<>>,
     instance |-> 0, cost_dict |-> EmptyDict, warnings |-> 0, slept |-> 0,
     entry_prices |-> EmptyDict]

\* The locals at the start of an attempt of get_cluster_cost; entry_prices
\* is a history field no action reads: all_prices as it was when the
\* decorated function was called.
ClStart(cluster_id, attempt_number, slept, entry_prices) ==
    [ClIdle EXCEPT !.cluster_id = cluster_id, !.attempt_number = attempt_number,
                   !.slept = slept, !.entry_prices = entry_prices]

TotIdle == [total_cost |-> 0, marker |-> 0, pending |-> <<>>, breakdowns |-> <<>>]

\* What an entry point returned (kind "ok", or "none" for Python's None) or
\* raised (kind "error", or "exit" for SystemExit).  For a call of
\* get_billed_price_for_period, requests counts its spot price requests and
\* again tells that the call before it returned an amount for the same
\* arguments; for get_total_cost_by_dates, breakdowns lists what
\* get_cluster_cost returned for each cluster.
Ret(o, kind, args, amount, breakdown, exc) ==
    [op |-> o, kind |-> kind, args |-> args, amount |-> amount,
     breakdown |-> breakdown, exc |-> exc, requests |-> 0, again |-> FALSE,
     breakdowns |-> <<>>]
NoArgs == <<>>
RetIdle == Ret("none", "none", NoArgs, 0, EmptyDict, NoExc)
Raised(o, args, exc) ==
    Ret(o, IF exc.type = "SystemExit" THEN "exit" ELSE "error", args, 0, EmptyDict, exc)

\* ------------------------------------------------------ EmrCostCalculator
Get(d, k) == IF k \in DOMAIN d THEN d[k] ELSE 0

\* group_type + ".EC2", group_type + ".EMR"
CostKey(group_type, kind) ==
    CASE group_type = "MASTER" /\ kind = "EC2" -> "MASTER.EC2"
      [] group_type = "MASTER" /\ kind = "EMR" -> "MASTER.EMR"
      [] group_type = "CORE" /\ kind = "EC2" -> "CORE.EC2"
      [] group_type = "CORE" /\ kind = "EMR" -> "CORE.EMR"
      [] group_type = "TASK" /\ kind = "EC2" -> "TASK.EC2"
      [] group_type = "TASK" /\ kind = "EMR" -> "TASK.EMR"

\* (termination_ts - creation_ts).total_seconds() / 3600
hours_run(instance) ==
    total_seconds(instance.termination_ts - instance.creation_ts) \div SecondsPerHour

\* Mutant of AddCost: TOTAL grows by the EC2 cost alone.
AddCostTotalEc2Only(cost_dict, group_type, cost, emr_cost) ==
    LET d1 == Put(cost_dict, CostKey(group_type, "EC2"),
                  Get(cost_dict, CostKey(group_type, "EC2")) + cost)
        d2 == Put(d1, CostKey(group_type, "EMR"),
                  Get(d1, CostKey(group_type, "EMR")) + emr_cost)
    IN Put(d2, "TOTAL", Get(d2, "TOTAL") + cost)

\* The three setdefault / += pairs of get_cluster_cost.
AddCost(cost_dict, group_type, cost, emr_cost) ==
    LET d1 == Put(cost_dict, CostKey(group_type, "EC2"),
                  Get(cost_dict, CostKey(group_type, "EC2")) + cost)
        d2 == Put(d1, CostKey(group_type, "EMR"),
                  Get(d1, CostKey(group_type, "EMR")) + emr_cost)
    IN Put(d2, "TOTAL", Get(d2, "TOTAL") + (cost + emr_cost))

\* Mutant of EmrCost: no markup for a spot instance.
EmrCostOnDemandOnly(instance) ==
    IF instance.market_type = "SPOT" THEN 0
    ELSE emr_prices[instance.instance_type] * hours_run(instance)

\* get_emr_price(instance.instance_type) * hours_run
EmrCost(instance) == emr_prices[instance.instance_type] * hours_run(instance)

\* Mutant of OnDemandCost: the rate looked up in the EMR price list.
OnDemandCostEmrRate(instance) ==
    emr_prices[instance.instance_type]
    * (total_seconds(instance.termination_ts - instance.creation_ts) \div SecondsPerHour)

\* The on-demand branch of _get_instance_cost.
OnDemandCost(instance) ==
    ec2_prices[instance.instance_type]
    * (total_seconds(instance.termination_ts - instance.creation_ts) \div SecondsPerHour)

\* The Ec2Instance _get_instances yields for a record of a group.
Ec2Instance(instance_info, instance_group) ==
    [creation_ts |-> instance_info.CreationDateTime,
     termination_ts |-> IF instance_info.EndDateTime = Missing THEN Now
                        ELSE instance_info.EndDateTime,
     instance_type |-> instance_group.InstanceType,
     market_type |-> instance_group.Market]

\* The group and the instance the loops of get_cluster_cost stand at.
CurrentGroup(c) == c.instance_groups[c.group]
CurrentInstance(c) == Ec2Instance(c.instance_list[c.instance], CurrentGroup(c))

\* Mutant of TotalAdd: = instead of +=.
TotalAddAssign(total_cost, cost_dict) ==
    IF "TOTAL" \in DOMAIN cost_dict THEN cost_dict["TOTAL"] ELSE total_cost

\* total_cost after one cluster's cost_dict.
TotalAdd(total_cost, cost_dict) ==
    IF "TOTAL" \in DOMAIN cost_dict THEN total_cost + cost_dict["TOTAL"] ELSE total_cost

\* ------------------------------------------------------------ control flow
\* An entry point returns or raises: the program is idle again.
Finish(r) ==
    /\ pc' = "idle"
    /\ op' = "none"
    /\ ret' = r
    /\ cl' = ClIdle
    /\ tot' = TotIdle

\* The for loop of get_total_cost_by_dates asks the generator
\* _get_cluster_list for the next cluster id.
TotalLoop(o, t) ==
    IF t.pending # <<>>
    THEN /\ pc' = "list_instance_groups"
         /\ cl' = ClStart(Head(t.pending), 1, 0, all_prices)
         /\ tot' = t
         /\ op' = o
         /\ ret' = ret
    ELSE IF t.marker # 0
    THEN /\ pc' = "list_clusters"
         /\ cl' = ClIdle
         /\ tot' = t
         /\ op' = o
         /\ ret' = ret
    ELSE Finish([Ret("total", "ok", NoArgs, t.total_cost, EmptyDict, NoExc)
                    EXCEPT !.breakdowns = t.breakdowns])

\* get_cluster_cost returns c.cost_dict.
ClusterReturns(o, c) ==
    IF o = "cluster"
    THEN Finish(Ret("cluster", "ok", <<c.cluster_id>>, 0, c.cost_dict, NoExc))
    ELSE TotalLoop(o, [tot EXCEPT
                         !.total_cost = TotalAdd(@, c.cost_dict),
                         !.pending = Tail(@),
                         !.breakdowns = Append(@, [id |-> c.cluster_id,
                                                   cost_dict |-> c.cost_dict])])

\* Mutant of ClusterRaises: the decorator gives up after its second attempt.
ClusterRaisesStopAfter(o, c, exc) ==
    IF is_error_retriable(exc) /\ c.attempt_number < 2
    THEN /\ pc' = "list_instance_groups"
         /\ cl' = ClStart(c.cluster_id, c.attempt_number + 1,
                          exponential_sleep(c.attempt_number), c.entry_prices)
         /\ op' = o
         /\ ret' = ret
         /\ tot' = tot
    ELSE Finish(Raised(o, IF o = "cluster" THEN <<c.cluster_id>> ELSE NoArgs, exc))

\* An exception leaves the body of get_cluster_cost: the retry decorator
\* sleeps and calls it again, or lets the exception through.
ClusterRaises(o, c, exc) ==
    IF is_error_retriable(exc)
    THEN /\ pc' = "list_instance_groups"
         /\ cl' = ClStart(c.cluster_id, c.attempt_number + 1,
                          exponential_sleep(c.attempt_number), c.entry_prices)
         /\ op' = o
         /\ ret' = ret
         /\ tot' = tot
    ELSE Finish(Raised(o, IF o = "cluster" THEN <<c.cluster_id>> ELSE NoArgs, exc))

\* The loop over instance_groups moves to the next group.
NextGroup(o, c) ==
    IF c.group < Len(c.instance_groups)
    THEN /\ pc' = "list_instances"
         /\ cl' = [c EXCEPT !.group = @ + 1, !.marker = 1, !.instance_list = <<>>,
                            !.instance = 0]
         /\ op' = o
         /\ ret' = ret
         /\ tot' = tot
    ELSE /\ pc' = "return"
         /\ cl' = c
         /\ op' = o
         /\ ret' = ret
         /\ tot' = tot

\* The loop over the group's instance_list moves to the next record.
NextInstance(o, c) ==
    IF c.instance < Len(c.instance_list)
    THEN /\ pc' = "instance"
         /\ cl' = [c EXCEPT !.instance = @ + 1]
         /\ op' = o
         /\ ret' = ret
         /\ tot' = tot
    ELSE NextGroup(o, c)

\* Lines 194-202 for the current instance, whose EC2 cost is cost (none:
\* _get_instance_cost returned None and += raises TypeError).
InstanceCosted(o, c, cost) ==
    IF cost.none
    THEN ClusterRaises(o, c, Exc("TypeError"))
    ELSE LET instance == CurrentInstance(c)
             emr_cost == EmrCost(instance)
         IN NextInstance(o, [c EXCEPT !.cost_dict =
                AddCost(@, CurrentGroup(c).InstanceGroupType, cost.value, emr_cost)])

\* get_billed_price_for_period returns result after nreq requests.
BilledReturns(o, c, args, result, nreq) ==
    IF o = "billed"
    THEN Finish([Ret("billed", IF result.none THEN "none" ELSE "ok", args,
                     result.value, EmptyDict, NoExc)
                    EXCEPT !.requests = nreq,
                           !.again = (ret.kind = "ok" /\ ret.args = args)])
    ELSE InstanceCosted(o, c, result)

\* An exception leaves get_billed_price_for_period after nreq requests.
BilledRaises(o, c, args, exc, nreq) ==
    IF o = "billed"
    THEN Finish([Raised("billed", args, exc) EXCEPT !.requests = nreq])
    ELSE ClusterRaises(o, c, exc)

\* Mutant of EnterBilled: the fetch always starts from prices = {}.
EnterBilledFreshDict(o, c, key, start_time, end_time) ==
    /\ UNCHANGED all_prices
    /\ requests' = 0
    /\ IF key \in DOMAIN all_prices /\ DOMAIN all_prices[key] = {}
       THEN /\ sp' = SpIdle
            /\ BilledRaises(o, c, <<key, start_time, end_time>>, Exc("IndexError"), 0)
       ELSE IF key \in DOMAIN all_prices
               /\ CacheSufficient(all_prices[key], start_time, end_time)
       THEN /\ sp' = SpIdle
            /\ BilledReturns(o, c, <<key, start_time, end_time>>,
                             BilledPrice(all_prices[key], start_time, end_time), 0)
       ELSE /\ sp' = [key |-> key, start_time |-> start_time, end_time |-> end_time,
                      prices |-> EmptyDict, cached |-> FALSE,
                      previous_ts |-> NoTs, next_token |-> 1,
                      entry_prices |-> all_prices]
            /\ pc' = "spot"
            /\ op' = o
            /\ cl' = c
            /\ ret' = ret
            /\ tot' = tot

\* get_billed_price_for_period up to its first request: the cache check of
\* _populate_all_prices_if_needed and, if the cache suffices, the billing.
EnterBilled(o, c, key, start_time, end_time) ==
    /\ UNCHANGED all_prices
    /\ requests' = 0
    /\ IF key \in DOMAIN all_prices /\ DOMAIN all_prices[key] = {}
       THEN \* sorted(prices.keys())[-1] of an empty dict
            /\ sp' = SpIdle
            /\ BilledRaises(o, c, <<key, start_time, end_time>>, Exc("IndexError"), 0)
       ELSE IF key \in DOMAIN all_prices
               /\ CacheSufficient(all_prices[key], start_time, end_time)
       THEN /\ sp' = SpIdle
            /\ BilledReturns(o, c, <<key, start_time, end_time>>,
                             BilledPrice(all_prices[key], start_time, end_time), 0)
       ELSE /\ sp' = [key |-> key, start_time |-> start_time, end_time |-> end_time,
                      prices |-> IF key \in DOMAIN all_prices THEN all_prices[key]
                                 ELSE EmptyDict,
                      cached |-> key \in DOMAIN all_prices,
                      previous_ts |-> NoTs, next_token |-> 1,
                      entry_prices |-> all_prices]
            /\ pc' = "spot"
            /\ op' = o
            /\ cl' = c
            /\ ret' = ret
            /\ tot' = tot

\* ---------------------------------------------------------------- actions
\* SpotPricing.get_billed_price_for_period(instance_id, availability_zone,
\* start_time, end_time), called on its own.
CallBilled(key, start_time, end_time) ==
    /\ pc = "idle"
    /\ start_time <= end_time
    /\ EnterBilled("billed", ClIdle, key, start_time, end_time)
    /\ UNCHANGED world

\* One response of describe_spot_price_history and the loop body that
\* merges it: check the gap, store the prices, follow NextToken; after the
\* last page the cache is assigned and the period is billed.
SpotPage ==
    /\ pc = "spot"
    /\ LET items == SpotPriceHistory(sp.key, sp.start_time, sp.end_time)
           m == MergePage(sp.prices, sp.previous_ts, Page(items, sp.next_token))
           args == <<sp.key, sp.start_time, sp.end_time>>
           \* prices is the cached dict itself when the key was cached
           inplace == IF sp.cached THEN Put(all_prices, sp.key, m.prices)
                      ELSE all_prices
       IN IF m.quit
          THEN /\ all_prices' = inplace
               /\ sp' = SpIdle
               /\ requests' = 0
               /\ BilledRaises(op, cl, args, Exc("SystemExit"), requests + 1)
          ELSE IF sp.next_token >= PageCount(items)
          THEN /\ all_prices' = Put(all_prices, sp.key, m.prices)
               /\ sp' = SpIdle
               /\ requests' = 0
               /\ BilledReturns(op, cl, args,
                                BilledPrice(m.prices, sp.start_time, sp.end_time),
                                requests + 1)
          ELSE /\ all_prices' = inplace
               /\ sp' = [sp EXCEPT !.prices = m.prices,
                                   !.previous_ts = m.previous_ts,
                                   !.next_token = @ + 1]
               /\ requests' = requests + 1
               /\ UNCHANGED <<pc, op, ret, cl, tot>>
    /\ UNCHANGED world

\* EmrCostCalculator.get_cluster_cost(cluster_id), through its decorator.
CallCluster(cluster_id) ==
    /\ pc = "idle"
    /\ pc' = "list_instance_groups"
    /\ op' = "cluster"
    /\ cl' = ClStart(cluster_id, 1, 0, all_prices)
    /\ ret' = RetIdle
    /\ UNCHANGED <<tot, spotVars, world>>

\* EmrCostCalculator.get_total_cost_by_dates(created_after, created_before).
CallTotal ==
    /\ pc = "idle"
    /\ pc' = "list_clusters"
    /\ op' = "total"
    /\ tot' = [TotIdle EXCEPT !.marker = 1]
    /\ ret' = RetIdle
    /\ UNCHANGED <<cl, spotVars, world>>

\* One response of list_clusters: its ids are yielded one by one, and its
\* Marker, if any, asks for the next page.
ListClusters ==
    /\ pc = "list_clusters"
    /\ TotalLoop(op, [tot EXCEPT
                        !.pending = Page(clusterSeq, tot.marker),
                        !.marker = IF @ < PageCount(clusterSeq) THEN @ + 1 ELSE 0])
    /\ UNCHANGED <<spotVars, world>>

\* The response of list_instance_groups.
ListInstanceGroups ==
    /\ pc = "list_instance_groups"
    /\ pc' = "describe_cluster"
    /\ cl' = [cl EXCEPT !.instance_groups = InstanceGroups(cl.cluster_id)]
    /\ UNCHANGED <<op, ret, tot, spotVars, world>>

\* The response of describe_cluster; the loop over the groups starts.
DescribeCluster ==
    /\ pc = "describe_cluster"
    /\ NextGroup(op, [cl EXCEPT !.availability_zone = AvailabilityZone(cl.cluster_id)])
    /\ UNCHANGED <<spotVars, world>>

\* Mutant of ListInstances: the batch replaces instance_list instead of
\* extending it.
ListInstancesKeepsLastBatch ==
    /\ pc = "list_instances"
    /\ LET items == instRecs[CurrentGroup(cl).Id]
           c == [cl EXCEPT !.instance_list = Page(items, cl.marker)]
       IN IF cl.marker < PageCount(items)
          THEN /\ cl' = [c EXCEPT !.marker = @ + 1]
               /\ UNCHANGED <<pc, op, ret, tot>>
          ELSE NextInstance(op, [c EXCEPT !.marker = 0])
    /\ UNCHANGED <<spotVars, world>>

\* One response of list_instances for the current group; after the last
\* page the generator starts on the records.
ListInstances ==
    /\ pc = "list_instances"
    /\ LET items == instRecs[CurrentGroup(cl).Id]
           c == [cl EXCEPT !.instance_list = @ \o Page(items, cl.marker)]
       IN IF cl.marker < PageCount(items)
          THEN /\ cl' = [c EXCEPT !.marker = @ + 1]
               /\ UNCHANGED <<pc, op, ret, tot>>
          ELSE NextInstance(op, [c EXCEPT !.marker = 0])
    /\ UNCHANGED <<spotVars, world>>

\* One record of instance_list: _get_instances resolves its timeline and
\* yields an Ec2Instance (or warns and skips it), and the body of the loop
\* of get_cluster_cost costs the instance, up to the first spot request.
Instance ==
    /\ pc = "instance"
    /\ LET instance_info == cl.instance_list[cl.instance]
           instance == CurrentInstance(cl)
       IN IF instance_info.CreationDateTime = Missing
          THEN \* instance_info['Status']['Timeline']['CreationDateTime']
               /\ ClusterRaises(op, cl, Exc("KeyError"))
               /\ UNCHANGED spotVars
          ELSE IF instance_info.EndDateTime = Missing
                  /\ instance_info.CreationDateTime = Malformed
          THEN \* creation_time.tzinfo: AttributeError, caught
               /\ NextInstance(op, [cl EXCEPT !.warnings = @ + 1])
               /\ UNCHANGED spotVars
          ELSE IF instance.creation_ts = Malformed
          THEN \* comparing it with or subtracting it from a datetime
               /\ ClusterRaises(op, cl, Exc("TypeError"))
               /\ UNCHANGED spotVars
          ELSE IF instance.market_type = "SPOT"
          THEN EnterBilled(op, cl, <<instance.instance_type, cl.availability_zone>>,
                           instance.creation_ts, instance.termination_ts)
          ELSE IF instance.market_type = "ON_DEMAND"
          THEN /\ InstanceCosted(op, cl, [none |-> FALSE, value |-> OnDemandCost(instance)])
               /\ UNCHANGED spotVars
          ELSE /\ InstanceCosted(op, cl, [none |-> TRUE, value |-> 0])
               /\ UNCHANGED spotVars
    /\ UNCHANGED world

\* return cost_dict
Return ==
    /\ pc = "return"
    /\ ClusterReturns(op, cl)
    /\ UNCHANGED <<spotVars, world>>

RemoteCalls ==
    {"list_clusters", "list_instance_groups", "describe_cluster", "list_instances", "spot"}

\* The remote call the program is blocked on raises exc.
RemoteFail(exc) ==
    /\ pc \in RemoteCalls
    /\ (is_error_retriable(exc) /\ op # "billed" /\ pc # "list_clusters")
           => cl.attempt_number <= MaxAttempts
    /\ IF pc = "spot"
       THEN /\ sp' = SpIdle
            /\ requests' = 0
            /\ UNCHANGED all_prices
            /\ BilledRaises(op, cl, <<sp.key, sp.start_time, sp.end_time>>, exc,
                            requests + 1)
       ELSE /\ UNCHANGED spotVars
            /\ IF pc = "list_clusters"
               THEN Finish(Raised("total", NoArgs, exc))
               ELSE ClusterRaises(op, cl, exc)
    /\ UNCHANGED world

\* ---------------------------------------------------------- specifications
\* Every price history over Times.
Timelines == UNION {[S -> Prices] : S \in SUBSET Times}

\* The timestamps an instance record may carry.
InstanceInfos ==
    {i \in {InstanceInfo(c, e) : c \in Times \cup {Missing, Malformed},
                                 e \in Times \cup {Missing}} :
        (i.CreationDateTime \in Times /\ i.EndDateTime \in Times)
            => i.CreationDateTime <= i.EndDateTime}

InitProgram ==
    /\ all_prices = EmptyDict
    /\ sp = SpIdle
    /\ requests = 0
    /\ cl = ClIdle
    /\ tot = TotIdle
    /\ pc = "idle"
    /\ op = "none"
    /\ ret = RetIdle

\* SpotPricing on its own, over every market history.
InitSpot ==
    /\ market \in [Keys -> Timelines]
    /\ descending \in BOOLEAN
    /\ instRecs = [g \in GroupIds |-> <<>>]
    /\ clusterSeq = <<>>
    /\ InitProgram

NextSpot ==
    \/ \E key \in Keys, start_time, end_time \in Times :
           CallBilled(key, start_time, end_time)
    \/ SpotPage
    \/ \E exc \in ServiceErrors : RemoteFail(exc)

SpecSpot == InitSpot /\ [][NextSpot]_vars

\* The whole program: the two entry points of the command line, over a
\* small inventory.  One record, probe, is drawn from every InstanceInfo and
\* placed among regular records, in an on-demand or in the spot groups.
Regular == InstanceInfo(12, 25)

Inventories ==
    {[g \in GroupIds |-> CASE g = "g-1" -> <<probe, Regular>>
                           [] g = "g-2" -> <<Regular>>
                           [] g = "g-3" -> <<>>] : probe \in InstanceInfos}
    \cup
    {[g \in GroupIds |-> CASE g = "g-1" -> <<Regular>>
                           [] g = "g-2" -> <<Regular, probe>>
                           [] g = "g-3" -> <<probe>>] : probe \in InstanceInfos}

\* The market histories of the whole-program specification: none, a sparse
\* one with a gap, and the dense ones.
Markets ==
    {f \in Timelines : DOMAIN f \in {{}, {0, 38}, Times}}

Init ==
    /\ market \in [Keys -> Markets]
    /\ descending \in BOOLEAN
    /\ instRecs \in Inventories
    /\ clusterSeq \in {<<"j-1", "j-2">>, <<"j-2">>}
    /\ InitProgram

Next ==
    \/ \E cluster_id \in ClusterIds : CallCluster(cluster_id)
    \/ CallTotal
    \/ ListClusters
    \/ ListInstanceGroups
    \/ DescribeCluster
    \/ ListInstances
    \/ Instance
    \/ Return
    \/ SpotPage
    \/ \E exc \in ServiceErrors : RemoteFail(exc)

Spec == Init /\ [][Next]_vars

\* ------------------------------------------------------------------ claims
\* The call of get_billed_price_for_period that just ended.
BilledDone == pc = "idle" /\ ret.op = "billed"
RetKey == ret.args[1]
RetStart == ret.args[2]
RetEnd == ret.args[3]

\* Seconds that [a, b) and [start, end) share.
OverlapSeconds(a, b, start, end) ==
    LET lo == IF a > start THEN a ELSE start
        hi == IF b < end THEN b ELSE end
    IN IF hi > lo THEN total_seconds(hi - lo) ELSE 0

RECURSIVE IntegralFrom(_, _, _, _, _)
IntegralFrom(prices, keys, i, start, end) ==
    IF i > Len(keys) THEN 0
    ELSE LET next == IF i = Len(keys)
                     THEN (IF end > keys[i] THEN end ELSE keys[i])
                     ELSE keys[i + 1]
         IN (OverlapSeconds(keys[i], next, start, end) * prices[keys[i]]) \div SecondsPerHour
            + IntegralFrom(prices, keys, i + 1, start, end)

\* The time-weighted integral of the price step function over [start, end):
\* every event's price times its share of the window, the last event's
\* interval reaching to end.
Integral(prices, start, end) ==
    IntegralFrom(prices, SortedSeq(DOMAIN prices), 1, start, end)

\* C1 (as claimed): whenever the cached timeline has an event at or before
\* start, the amount get_billed_price_for_period returns is the
\* time-weighted integral of the cached step function over [start, end).
C1_BilledIsIntegral ==
    (/\ BilledDone
     /\ ret.kind = "ok"
     /\ \E t \in DOMAIN all_prices[RetKey] : t <= RetStart)
        => ret.amount = Integral(all_prices[RetKey], RetStart, RetEnd)

\* Whether two chronologically adjacent timestamps of S are more than
\* MaxGap apart.
HasGap(S) ==
    \E a, b \in S : /\ a < b
                    /\ b - a > MaxGap
                    /\ ~ \E c \in S : a < c /\ c < b

\* C3 (as claimed): a call that fetched events of which two adjacent ones
\* are more than 25 hours apart returns no amount, whatever the order of
\* delivery.
C3_GapAborts ==
    (/\ BilledDone
     /\ ret.requests > 0
     /\ ret.kind \in {"ok", "none"})
        => ~HasGap(HistoryTimes(RetKey, RetStart, RetEnd))

\* The cached timestamps of a key, sorted.
CachedKeys(key) == SortedSeq(DOMAIN all_prices[key])

\* A call of get_billed_price_for_period for the arguments of the call that
\* just returned an amount.
SecondCall(start_time, end_time) ==
    /\ BilledDone
    /\ ret.kind = "ok"
    /\ DOMAIN all_prices[RetKey] # {}
    /\ CallBilled(RetKey, start_time, end_time)

\* C4 (as claimed): after a call has returned, a second call for the same
\* key and a window with first cached timestamp <= start and end <= last
\* cached timestamp issues no request, and for the same window returns the
\* same amount.
C4_RepeatNoFetch ==
    [][\A start_time, end_time \in Times :
         (/\ SecondCall(start_time, end_time)
          /\ CachedKeys(RetKey)[1] <= start_time
          /\ end_time <= CachedKeys(RetKey)[Len(CachedKeys(RetKey))])
            => /\ pc' = "idle" /\ ret'.kind = "ok" /\ ret'.requests = 0
               /\ (<<start_time, end_time>> = <<RetStart, RetEnd>>
                      => ret'.amount = ret.amount)]_vars

\* C4 (amended): the same, for windows that start strictly after the first
\* cached timestamp.
C4_RepeatNoFetchStrict ==
    [][\A start_time, end_time \in Times :
         (/\ SecondCall(start_time, end_time)
          /\ CachedKeys(RetKey)[1] < start_time
          /\ end_time <= CachedKeys(RetKey)[Len(CachedKeys(RetKey))])
            => /\ pc' = "idle" /\ ret'.kind = "ok" /\ ret'.requests = 0
               /\ (<<start_time, end_time>> = <<RetStart, RetEnd>>
                      => ret'.amount = ret.amount)]_vars

\* C4 witness: a call that repeated the arguments of the call before it,
\* inside the cached range, has returned without a request.
C4_Witness ==
    /\ BilledDone
    /\ ret.kind = "ok"
    /\ ret.again
    /\ ret.requests = 0
    /\ ret.amount > 0
    /\ CachedKeys(RetKey)[1] < RetStart
    /\ RetEnd <= CachedKeys(RetKey)[Len(CachedKeys(RetKey))]

\* The cost_dict keys other than TOTAL.
RoleKeys == {CostKey(r, k) : r \in Roles, k \in {"EC2", "EMR"}}

RECURSIVE SumOver(_, _)
SumOver(d, S) ==
    IF S = {} THEN 0
    ELSE LET k == CHOOSE x \in S : TRUE IN d[k] + SumOver(d, S \ {k})

\* TOTAL is there as soon as any entry is, and is the sum of the others.
TotalIsSum(d) ==
    /\ DOMAIN d \subseteq RoleKeys \cup {"TOTAL"}
    /\ DOMAIN d # {} => "TOTAL" \in DOMAIN d
    /\ "TOTAL" \in DOMAIN d => d["TOTAL"] = SumOver(d, DOMAIN d \ {"TOTAL"})

\* C2: after each accumulated instance, and in the breakdown
\* get_cluster_cost returns, TOTAL equals the sum of all "<role>.EC2" and
\* "<role>.EMR" entries.
C2_TotalIsSum ==
    /\ TotalIsSum(cl.cost_dict)
    /\ TotalIsSum(ret.breakdown)
    /\ \A i \in 1..Len(ret.breakdowns) : TotalIsSum(ret.breakdowns[i].cost_dict)

\* C2 witness: a returned breakdown with entries of two roles.
C2_Witness ==
    /\ pc = "idle" /\ ret.op = "cluster" /\ ret.kind = "ok"
    /\ {"MASTER.EC2", "MASTER.EMR", "CORE.EC2", "CORE.EMR"} \subseteq DOMAIN ret.breakdown
    /\ ret.breakdown["MASTER.EC2"] > 0 /\ ret.breakdown["CORE.EC2"] > 0
    /\ ret.breakdown["TOTAL"] > ret.breakdown["MASTER.EC2"] + ret.breakdown["CORE.EC2"]

\* An error whose code begins with "5".
Transient(exc) == exc.type = "ClientError" /\ Head(exc.code) = "5"

\* C5 (as claimed): no failure of a remote call with a code beginning with
\* "5" is surfaced to the caller of get_cluster_cost or
\* get_total_cost_by_dates.
C5_TransientNotSurfaced ==
    (pc = "idle" /\ ret.op \in {"cluster", "total"} /\ ret.kind = "error")
        => ~Transient(ret.exc)

\* C6: a remote call failing with an error that is not transient ends the
\* entry point at once with that error: no retry, no further request, no
\* breakdown and no total.
C6_FatalPropagates ==
    [][\A exc \in ServiceErrors :
         (~Transient(exc) /\ RemoteFail(exc))
            => /\ pc' = "idle" /\ op' = "none"
               /\ ret'.kind = "error" /\ ret'.exc = exc
               /\ ret'.breakdown = EmptyDict /\ ret'.breakdowns = <<>>]_vars

\* C6 witness: get_total_cost_by_dates has raised a "400" error, or
\* get_cluster_cost an error without a code.
C6_Witness ==
    /\ pc = "idle" /\ ret.kind = "error"
    /\ \/ ret.op = "total" /\ ret.exc = ClientError(<<"4", "0", "0">>)
       \/ ret.op = "cluster" /\ ret.exc = Exc("EndpointConnectionError")

\* The record the loop of _get_instances stands at.
CurrentInfo == cl.instance_list[cl.instance]
Resolvable(info) == info.CreationDateTime \in Times

\* C7 (as claimed): a record whose timeline cannot be resolved is skipped
\* with a warning, and get_cluster_cost goes on.
C7_UnresolvableSkipped ==
    [][(pc = "instance" /\ ~Resolvable(CurrentInfo))
          => /\ pc' \in {"instance", "list_instances", "return"}
             /\ cl'.warnings = cl.warnings + 1
             /\ cl'.cost_dict = cl.cost_dict]_vars

\* What an accumulation must make of cost_dict d: the three keys of the role
\* grown by ec2, emr and their sum, every other key as it was.
Accumulated(d, d2, role, ec2, emr) ==
    LET touched == {CostKey(role, "EC2"), CostKey(role, "EMR"), "TOTAL"}
    IN /\ DOMAIN d2 = DOMAIN d \cup touched
       /\ d2[CostKey(role, "EC2")] = Get(d, CostKey(role, "EC2")) + ec2
       /\ d2[CostKey(role, "EMR")] = Get(d, CostKey(role, "EMR")) + emr
       /\ d2["TOTAL"] = Get(d, "TOTAL") + ec2 + emr
       /\ \A k \in DOMAIN d \ touched : d2[k] = d[k]

\* The lifetime of the current record, in hours.
Termination(info) == IF info.EndDateTime = Missing THEN Now ELSE info.EndDateTime
HoursRun(info) == Termination(info) - info.CreationDateTime

\* C8: an ON_DEMAND instance of role R adds baseRate * hoursRun to "R.EC2",
\* markupRate * hoursRun to "R.EMR" and their sum to TOTAL, and nothing else
\* changes.
C8_OnDemandCost ==
    [][(pc = "instance" /\ Resolvable(CurrentInfo)
        /\ CurrentGroup(cl).Market = "ON_DEMAND")
          => /\ pc' \in {"instance", "list_instances", "return"}
             /\ Accumulated(cl.cost_dict, cl'.cost_dict,
                            CurrentGroup(cl).InstanceGroupType,
                            ec2_prices[CurrentGroup(cl).InstanceType] * HoursRun(CurrentInfo),
                            emr_prices[CurrentGroup(cl).InstanceType] * HoursRun(CurrentInfo))]_vars

\* C8 witness: the master group's two on-demand instances are accumulated,
\* the regular one for 13 hours.
C8_Witness ==
    /\ pc = "list_instances" /\ cl.group = 2
    /\ "MASTER.EC2" \in DOMAIN cl.cost_dict
    /\ cl.cost_dict["MASTER.EC2"] > ec2_prices["m1"] * 13
    /\ cl.cost_dict["MASTER.EMR"] > emr_prices["m1"] * 13

\* A step that accumulates the current spot instance: its billing returned.
SpotAccumulates ==
    /\ pc \in {"instance", "spot"}
    /\ pc' \in {"instance", "list_instances", "return"}
    /\ Resolvable(CurrentInfo)
    /\ CurrentGroup(cl).Market = "SPOT"

\* C9: a SPOT instance adds to "<role>.EC2" what
\* get_billed_price_for_period returns for its type, the cluster's zone and
\* its lifetime, and to "<role>.EMR" markupRate * hoursRun, as an ON_DEMAND
\* instance would.
C9_SpotCost ==
    [][SpotAccumulates
          => Accumulated(cl.cost_dict, cl'.cost_dict,
                         CurrentGroup(cl).InstanceGroupType,
                         BilledPrice(all_prices'[<<CurrentGroup(cl).InstanceType,
                                                   AvailabilityZone(cl.cluster_id)>>],
                                     CurrentInfo.CreationDateTime,
                                     Termination(CurrentInfo)).value,
                         emr_prices[CurrentGroup(cl).InstanceType] * HoursRun(CurrentInfo))]_vars

\* C9 witness: the core group's spot instance is accumulated with a spot
\* cost that differs from the on-demand cost of its 13 hours.
C9_Witness ==
    /\ pc = "return" /\ cl.cluster_id = "j-1"
    /\ "CORE.EC2" \in DOMAIN cl.cost_dict
    /\ cl.cost_dict["CORE.EC2"] > 0
    /\ cl.cost_dict["CORE.EC2"] # ec2_prices["m1"] * 13
    /\ cl.cost_dict["CORE.EMR"] = emr_prices["m1"] * 13

RECURSIVE SumTotals(_)
SumTotals(breakdowns) ==
    IF breakdowns = <<>> THEN 0
    ELSE Get(Head(breakdowns).cost_dict, "TOTAL") + SumTotals(Tail(breakdowns))

\* C10: get_total_cost_by_dates returns the sum of the TOTAL of the
\* breakdown of every enumerated cluster, each cluster once and in listing
\* order, a breakdown without TOTAL counting zero.
C10_TotalIsSumOfClusters ==
    (pc = "idle" /\ ret.op = "total" /\ ret.kind = "ok")
        => /\ [i \in 1..Len(ret.breakdowns) |-> ret.breakdowns[i].id] = clusterSeq
           /\ ret.amount = SumTotals(ret.breakdowns)

\* C10 witness: a total over two clusters, one with a cost and one whose
\* breakdown is empty.
C10_Witness ==
    /\ pc = "idle" /\ ret.op = "total" /\ ret.kind = "ok"
    /\ Len(ret.breakdowns) = 2
    /\ ret.amount > 0
    /\ \E i \in 1..2 : "TOTAL" \notin DOMAIN ret.breakdowns[i].cost_dict

\* The pages a listing of n items has, and its first k pages' items.
NumPages(n) == IF n <= PageSize THEN 1 ELSE 1 + ((n - 1) \div PageSize)
FirstPages(items, k) ==
    SubSeq(items, 1, IF k * PageSize < Len(items) THEN k * PageSize ELSE Len(items))

\* The cluster ids get_total_cost_by_dates has taken from the listing.
Enumerated ==
    [i \in 1..Len(tot.breakdowns) |-> tot.breakdowns[i].id] \o tot.pending

\* What the spot service lists for the fetch in progress.
SpotItems == SpotPriceHistory(sp.key, sp.start_time, sp.end_time)

\* The drains in progress: page n is requested after pages 1..n-1 and only
\* if page n-1 carried a marker, and what was drained so far is the
\* concatenation of pages 1..n-1.
PagesInOrder ==
    /\ pc = "list_clusters"
          => /\ tot.marker \in 1..NumPages(Len(clusterSeq))
             /\ Enumerated = FirstPages(clusterSeq, tot.marker - 1)
    /\ (op = "total" /\ pc # "list_clusters" /\ tot.marker # 0)
          => Enumerated = FirstPages(clusterSeq, tot.marker - 1)
    /\ (op = "total" /\ pc # "list_clusters" /\ tot.marker = 0)
          => Enumerated = clusterSeq
    /\ pc = "list_instances"
          => /\ cl.marker \in 1..NumPages(Len(instRecs[CurrentGroup(cl).Id]))
             /\ cl.instance_list
                  = FirstPages(instRecs[CurrentGroup(cl).Id], cl.marker - 1)
    /\ pc = "instance" => cl.instance_list = instRecs[CurrentGroup(cl).Id]
    /\ pc = "spot"
          => /\ sp.next_token = requests + 1
             /\ sp.next_token \in 1..NumPages(Len(SpotItems))
             /\ \A i \in 1..Len(FirstPages(SpotItems, requests)) :
                    /\ SpotItems[i].Timestamp \in DOMAIN sp.prices
                    /\ sp.prices[SpotItems[i].Timestamp] = SpotItems[i].SpotPrice

\* The step that ends a spot price fetch: every page was requested, and
\* every listed event is in the cache of the key.
SpotDrained ==
    (SpotAccumulates /\ pc = "spot")
        => /\ requests + 1 = NumPages(Len(SpotItems))
           /\ \A i \in 1..Len(SpotItems) :
                  /\ SpotItems[i].Timestamp \in DOMAIN all_prices'[sp.key]
                  /\ all_prices'[sp.key][SpotItems[i].Timestamp] = SpotItems[i].SpotPrice

C12_CachedNoGap ==
    (pc = "idle" /\ ret.kind \in {"ok", "none"})
        => \A key \in DOMAIN all_prices : ~HasGap(DOMAIN all_prices[key])

\* C13: the cache only grows: no step removes a cached key or a cached
\* timestamp of a key.
C13_CacheOnlyGrows ==
    [][\A key \in DOMAIN all_prices :
          /\ key \in DOMAIN all_prices'
          /\ DOMAIN all_prices[key] \subseteq DOMAIN all_prices'[key]]_vars

\* C13 witness: a call has fetched, and the cached timeline holds events
\* that this fetch did not list: an earlier call's events were kept.
C13_Witness ==
    /\ BilledDone
    /\ ret.kind = "ok"
    /\ ret.requests > 0
    /\ HistoryTimes(RetKey, RetStart, RetEnd) \subseteq DOMAIN all_prices[RetKey]
    /\ HistoryTimes(RetKey, RetStart, RetEnd) # DOMAIN all_prices[RetKey]

\* C14: a remote call made inside get_cluster_cost that fails with a
\* transient error never ends the call, whatever the number of attempts so
\* far: get_cluster_cost starts again for the same cluster, as the next
\* attempt, and nothing is returned or raised.
C14_TransientAlwaysRestarts ==
    [][\A exc \in ServiceErrors :
         (Transient(exc) /\ RemoteFail(exc) /\ pc # "list_clusters")
            => /\ pc' = "list_instance_groups"
               /\ op' = op
               /\ ret' = ret
               /\ cl'.cluster_id = cl.cluster_id
               /\ cl'.attempt_number = cl.attempt_number + 1
               /\ cl'.cost_dict = EmptyDict]_vars

\* C14 witness: every attempt so far has failed with a transient error, and
\* get_cluster_cost starts once more.
C14_Witness ==
    /\ pc = "list_instance_groups"
    /\ cl.attempt_number = MaxAttempts + 1
    /\ cl.slept > 0

\* C15: when the cached timeline of the key holds a single event, at or
\* before start, get_billed_price_for_period returns that event's price
\* times the hours of [start, end), however far after the event end lies.
C15_TailExtension ==
    (/\ BilledDone
     /\ ret.kind \in {"ok", "none"}
     /\ Cardinality(DOMAIN all_prices[RetKey]) = 1
     /\ \A t \in DOMAIN all_prices[RetKey] : t <= RetStart)
        => /\ ret.kind = "ok"
           /\ \A t \in DOMAIN all_prices[RetKey] :
                  ret.amount * SecondsPerHour
                      = all_prices[RetKey][t] * total_seconds(RetEnd - RetStart)

\* C15 witness: a single cached event, a window that starts after it and
\* ends more than 25 hours after it, and an amount.
C15_Witness ==
    /\ BilledDone
    /\ ret.kind = "ok"
    /\ ret.amount > 0
    /\ Cardinality(DOMAIN all_prices[RetKey]) = 1
    /\ \A t \in DOMAIN all_prices[RetKey] : t < RetStart /\ RetEnd - t > MaxGap

\* The cache is sufficient for a window: a timeline is cached for the key,
\* its earliest timestamp is before start and its latest less than 25 hours
\* before end.
Sufficient(key, start_time, end_time) ==
    /\ key \in DOMAIN all_prices
    /\ DOMAIN all_prices[key] # {}
    /\ Min(DOMAIN all_prices[key]) < start_time
    /\ end_time - Max(DOMAIN all_prices[key]) < MaxGap

\* C16 (as claimed): a call of get_billed_price_for_period issues a spot
\* price request if and only if the cache is not sufficient for its window,
\* and leaves the cache alone when it is.
C16_FetchIffInsufficient ==
    [][\A key \in Keys, start_time, end_time \in Times :
         CallBilled(key, start_time, end_time)
            => /\ (pc' = "spot") <=> ~Sufficient(key, start_time, end_time)
               /\ Sufficient(key, start_time, end_time)
                     => (all_prices' = all_prices /\ ret'.requests = 0)]_vars

\* get_billed_price_for_period in a run without failures, from the cache
\* pa: what it returns and the cache it leaves, or failed when it raises.
RefBilled(pa, key, start_time, end_time) ==
    IF key \in DOMAIN pa /\ DOMAIN pa[key] = {}
    THEN [failed |-> TRUE, value |-> 0, all_prices |-> pa]
    ELSE IF key \in DOMAIN pa /\ CacheSufficient(pa[key], start_time, end_time)
    THEN [failed |-> BilledPrice(pa[key], start_time, end_time).none,
          value |-> BilledPrice(pa[key], start_time, end_time).value,
          all_prices |-> pa]
    ELSE LET m == MergePage(IF key \in DOMAIN pa THEN pa[key] ELSE EmptyDict, NoTs,
                            SpotPriceHistory(key, start_time, end_time))
         IN [failed |-> m.quit \/ BilledPrice(m.prices, start_time, end_time).none,
             value |-> BilledPrice(m.prices, start_time, end_time).value,
             all_prices |-> Put(pa, key, m.prices)]

RECURSIVE RefInstances(_, _, _, _, _)
\* The loop over the records infos of group g in a run without failures.
RefInstances(pa, cost_dict, cluster_id, g, infos) ==
    IF infos = <<>> THEN [failed |-> FALSE, cost_dict |-> cost_dict, all_prices |-> pa]
    ELSE LET info == Head(infos)
             instance == Ec2Instance(info, g)
         IN IF info.CreationDateTime = Missing
            THEN [failed |-> TRUE, cost_dict |-> cost_dict, all_prices |-> pa]
            ELSE IF info.EndDateTime = Missing /\ info.CreationDateTime = Malformed
            THEN RefInstances(pa, cost_dict, cluster_id, g, Tail(infos))
            ELSE IF info.CreationDateTime = Malformed
            THEN [failed |-> TRUE, cost_dict |-> cost_dict, all_prices |-> pa]
            ELSE IF g.Market = "SPOT"
            THEN LET b == RefBilled(pa, <<g.InstanceType, AvailabilityZone(cluster_id)>>,
                                    instance.creation_ts, instance.termination_ts)
                 IN IF b.failed
                    THEN [failed |-> TRUE, cost_dict |-> cost_dict,
                          all_prices |-> b.all_prices]
                    ELSE RefInstances(b.all_prices,
                                      AddCost(cost_dict, g.InstanceGroupType, b.value,
                                              EmrCost(instance)),
                                      cluster_id, g, Tail(infos))
            ELSE RefInstances(pa,
                              AddCost(cost_dict, g.InstanceGroupType,
                                      OnDemandCost(instance), EmrCost(instance)),
                              cluster_id, g, Tail(infos))

RECURSIVE RefGroups(_, _, _, _)
RefGroups(pa, cost_dict, cluster_id, groups) ==
    IF groups = <<>> THEN [failed |-> FALSE, cost_dict |-> cost_dict, all_prices |-> pa]
    ELSE LET r == RefInstances(pa, cost_dict, cluster_id, Head(groups),
                               instRecs[Head(groups).Id])
         IN IF r.failed THEN r
            ELSE RefGroups(r.all_prices, r.cost_dict, cluster_id, Tail(groups))

\* get_cluster_cost(cluster_id) in a run without failures, from the cache pa.
RefClusterCost(pa, cluster_id) ==
    RefGroups(pa, EmptyDict, cluster_id, InstanceGroups(cluster_id))

\* C17 (as claimed): the breakdown get_cluster_cost is about to return
\* after transient failures and retries is the breakdown of a run without
\* failures over the same service data, from the cache as it was when
\* get_cluster_cost was called, whenever that run returns one.
C17_RetriesChangeNothing ==
    (/\ pc = "return"
     /\ cl.attempt_number > 1
     /\ ~RefClusterCost(cl.entry_prices, cl.cluster_id).failed)
        => cl.cost_dict = RefClusterCost(cl.entry_prices, cl.cluster_id).cost_dict

\* A step that ends a spot price fetch in failure: a page request raised
\* an error, or the gap check aborted.
FetchFails ==
    /\ pc = "spot"
    /\ pc' = "idle"
    /\ ret'.kind \in {"error", "exit"}

\* C18 (as claimed): a spot price fetch that fails partway leaves the cache
\* as it was before the call, for a key that was not cached and for a key
\* that already had a timeline.
C18_FailedFetchKeepsCache ==
    [][FetchFails => all_prices' = sp.entry_prices]_vars

\* C19 (as claimed): every call of get_billed_price_for_period with
\* start <= end that returns, returns a number, and it is not negative.
C19_BilledIsNumber ==
    (BilledDone /\ ret.kind \in {"ok", "none"})
        => (ret.kind = "ok" /\ ret.amount >= 0)

====
